---- MODULE Spec2Model ----
(***************************************************************************)
(* Model of iped-app/resources/scripts/tasks/WhisperProcess.py: a worker   *)
(* process that loads a whisperx model once (with a CPU fallback) and then *)
(* serves ping / terminate / transcription requests read line by line from *)
(* stdin, answering on the original stdout (the protocol channel) while    *)
(* everything else goes to stderr (the diagnostic channel).                *)
(*                                                                         *)
(* A line of text is a sequence of one-character strings.  The program     *)
(* counter pc names the source line the process is about to execute.       *)
(* modelName, threads, language and batch_size are passed through to the   *)
(* library calls unchanged and influence no branch; they are not modelled. *)
(***************************************************************************)
EXTENDS Integers, Sequences, FiniteSets

\* ---------------------------------------------------------------- bounds
MaxDeviceNum == 1      \* device indexes 0..MaxDeviceNum may be requested
MaxCuda      == 1      \* GPUtil reports 0..MaxCuda accelerators
MaxInput     == 2      \* stdin holds at most MaxInput lines before it closes

\* ------------------------------------------------------- protocol tokens
terminate      == <<"t", "e", "r", "m", "i", "n", "a", "t", "e", "_", "p", "r", "o", "c", "e", "s", "s">>
model_loaded   == <<"m", "o", "d", "e", "l", "_", "l", "o", "a", "d", "e", "d">>
library_loaded == <<"l", "i", "b", "r", "a", "r", "y", "_", "l", "o", "a", "d", "e", "d">>
finished       == <<"t", "r", "a", "n", "s", "c", "r", "i", "p", "t", "i", "o", "n", "_", "f", "i", "n", "i", "s", "h", "e", "d">>
ping           == <<"p", "i", "n", "g">>

cuda == <<"c", "u", "d", "a">>
cpu  == <<"c", "p", "u">>

FallbackNotice == <<"F", "A", "I", "L", "E", "D", " ", "t", "o", " ", "l", "o", "a", "d", " ", "m", "o", "d", "e", "l", " ", "o", "n", " ", "G", "P", "U", ",", " ", "f", "a", "l", "l", "b", "a", "c", "k", "i", "n", "g", " ", "t", "o", " ", "C", "P", "U", "!">>

\* what the interpreter writes to stderr for an uncaught exception
Traceback == <<"T", "r", "a", "c", "e", "b", "a", "c", "k">>

\* ------------------------------------------------------ the environment
\* values of sys.argv[5]
ComputeTypes == {"float16", "float32", "int8"}

\* an audio reference, as the parent process sends it
AudioRef == <<"a", ".", "w", "a", "v">>

\* the lines the parent process may write to the worker's stdin
InputLines == {terminate, ping, AudioRef}

\* repr(e) of the exceptions load_audio and model.transcribe may raise; a
\* repr may hold raw line breaks
AudioError == <<"E", "\n", "1">>
ModelError == <<"E", "\r", "2">>

\* repr(e) of the KeyError raised by segment['text'] on a segment with no text
KeyErrorText == <<"K", "e", "y", "E", "r", "r", "o", "r", "(", "'", "t", "e", "x", "t", "'", ")">>

\* no exception pending
NoExc == <<>>

\* segments as model.transcribe returns them: dicts with a 'text' and an
\* optional 'avg_logprob' (in tenths: -1 is -0.1); SegNoText is malformed
SegA      == [text |-> <<"a", "\n">>, avg_logprob |-> -1]
SegB      == [text |-> <<"\r", "b">>, avg_logprob |-> -3]
SegC      == [text |-> <<"c">>]
SegZ      == [text |-> <<" ">>, avg_logprob |-> 0]
SegNoText == [avg_logprob |-> -1]

\* the values of result['segments'] the model may return
Results ==
    { <<>>,
      <<SegC>>,
      <<SegZ>>,
      <<SegA, SegB>>,
      <<SegC, SegA, SegC>>,
      <<SegA, SegNoText, SegB>> }

RECURSIVE SeqsUpTo(_, _)
SeqsUpTo(S, n) ==
    IF n = 0 THEN {<<>>}
    ELSE LET shorter == SeqsUpTo(S, n - 1)
         IN  shorter \cup {Append(s, x) : s \in {t \in shorter : Len(t) = n - 1}, x \in S}

\* ------------------------------------------------------ pure functions
Digit(d) ==
    CASE d = 0 -> "0" [] d = 1 -> "1" [] d = 2 -> "2" [] d = 3 -> "3" [] d = 4 -> "4"
      [] d = 5 -> "5" [] d = 6 -> "6" [] d = 7 -> "7" [] d = 8 -> "8" [] d = 9 -> "9"

\* str(n) of a non-negative int
RECURSIVE StrInt(_)
StrInt(n) == IF n < 10 THEN <<Digit(n)>> ELSE Append(StrInt(n \div 10), Digit(n % 10))

\* s.replace(old, new) for one-character old and new
RECURSIVE Replace(_, _, _)
Replace(s, old, new) ==
    IF s = <<>> THEN <<>>
    ELSE <<IF Head(s) = old THEN new ELSE Head(s)>> \o Replace(Tail(s), old, new)

\* s with every occurrence of the character old removed
RECURSIVE Remove(_, _)
Remove(s, old) ==
    IF s = <<>> THEN <<>>
    ELSE (IF Head(s) = old THEN <<>> ELSE <<Head(s)>>) \o Remove(Tail(s), old)

\* Sanitize with the carriage return replaced by '' in place of ' '
Sanitize_DropCR(s) == Remove(Replace(s, "\n", " "), "\r")

\* x.replace('\n', ' ').replace('\r', ' ')
Sanitize(s) == Replace(Replace(s, "\n", " "), "\r", " ")

\* floats are fixed-point numbers with Scale units to 1.0
Scale == 10000

\* numpy.exp of a log-probability given in tenths
Exp(l) == CASE l = 0 -> 10000 [] l = -1 -> 9048 [] l = -3 -> 7408

RECURSIVE SumExp(_)
SumExp(lps) == IF lps = <<>> THEN 0 ELSE Exp(Head(lps)) + SumExp(Tail(lps))

RECURSIVE SumSeq(_)
SumSeq(lps) == IF lps = <<>> THEN 0 ELSE Head(lps) + SumSeq(Tail(lps))

\* MeanExp with the two calls swapped: numpy.exp(numpy.mean(logprobs)), the
\* mean rounded to a tenth
MeanExp_ExpOfMean(lps) ==
    LET mean == -((-SumSeq(lps)) \div Len(lps))
    IN  CASE mean = 0 -> 10000 [] mean = -1 -> 9048 [] mean = -2 -> 8187 [] mean = -3 -> 7408

\* numpy.mean(numpy.exp(logprobs))
MeanExp(lps) == SumExp(lps) \div Len(lps)

\* the fraction digits of a float, trailing zeros dropped but one digit kept
RECURSIVE FracDigits(_, _)
FracDigits(f, unit) ==
    IF unit = 1 THEN <<>>
    ELSE LET u == unit \div 10
         IN  IF f % u = 0 THEN <<Digit(f \div u)>>
             ELSE <<Digit(f \div u)>> \o FracDigits(f % u, u)

\* str(x) of a float
StrFloat(x) == StrInt(x \div Scale) \o <<".">> \o FracDigits(x % Scale, Scale)

\* FinalScore with the float 0.0 in place of the int 0
FinalScore_Float0(lps) ==
    IF Len(lps) = 0 THEN [type |-> "float", val |-> 0]
    ELSE [type |-> "float", val |-> MeanExp(lps)]

\* lines 83-86: the int 0 when no log-probability was collected, else a float
FinalScore(lps) ==
    IF Len(lps) = 0 THEN [type |-> "int", val |-> 0]
    ELSE [type |-> "float", val |-> MeanExp(lps)]

\* str(finalScore)
StrScore(score) == IF score.type = "int" THEN StrInt(score.val) ELSE StrFloat(score.val)

\* lines 71-74: the loop over result['segments']; stops at the first segment
\* whose 'text' is missing, keeping what was aggregated so far
RECURSIVE ForSegments(_, _, _)
ForSegments(segs, tr, lps) ==
    IF segs = <<>> THEN [transcription |-> tr, logprobs |-> lps, e |-> NoExc]
    ELSE LET segment == Head(segs)
         IN  IF "text" \notin DOMAIN segment
             THEN [transcription |-> tr, logprobs |-> lps, e |-> KeyErrorText]
             ELSE ForSegments(Tail(segs), tr \o segment.text,
                              IF "avg_logprob" \in DOMAIN segment
                              THEN Append(lps, segment.avg_logprob) ELSE lps)

\* ---------------------------------------------------------------- state
VARIABLES
    pc,             \* source line about to execute, or "terminated" / "crashed"
    exit,           \* "running", "normal" (main returned) or "abnormal" (uncaught exception)
    uncaught,       \* the exception that left main, "None" while there is none
    argv,           \* the startup parameters as given
    stdin,          \* the lines the parent wrote before closing the stream
    pos,            \* number of lines input() has returned
    out,            \* the protocol channel: what the parent can read from the saved stdout
    buffer,         \* written to the saved stdout but not flushed yet
    err,            \* the diagnostic channel (sys.stderr)
    cudaCount,      \* -1 until line 29 binds it
    deviceId,       \* <<>> until line 34/36 binds it
    deviceNum,
    compute_type,
    loads,          \* the calls of whisperx.load_model, in order
    model,          \* [loaded |-> FALSE] until a load succeeds
    e,              \* repr of the exception being handled, or NoExc
    line,
    transcription,
    logprobs,
    text,
    finalScore,
    audioCalls,     \* calls of whisperx.load_audio
    transcribeCalls,\* calls of model.transcribe
    reqs            \* history: for each line read, the line, the length of out
                    \* and the call counts when it was read, and its result

vars == <<pc, exit, uncaught, argv, stdin, pos, out, buffer, err, cudaCount, deviceId, deviceNum,
          compute_type, loads, model, e, line, transcription, logprobs, text,
          finalScore, audioCalls, transcribeCalls, reqs>>

startupVars == <<cudaCount, deviceId, deviceNum, compute_type, loads, model>>
requestVars == <<line, transcription, logprobs, text, finalScore, audioCalls,
                 transcribeCalls, reqs, pos>>

NoModel == [loaded |-> FALSE]

\* lines 1-22: stdout saved and redirected, argv parsed
Init ==
    /\ pc = "L24"
    /\ exit = "running"
    /\ uncaught = "None"
    /\ argv \in [deviceNum : 0..MaxDeviceNum, compute_type : ComputeTypes]
    /\ stdin \in SeqsUpTo(InputLines, MaxInput)
    /\ pos = 0
    /\ out = <<>>
    /\ buffer = <<>>
    /\ err = <<>>
    /\ cudaCount = -1
    /\ deviceId = <<>>
    /\ deviceNum = argv.deviceNum
    /\ compute_type = argv.compute_type
    /\ loads = <<>>
    /\ model = NoModel
    /\ e = NoExc
    /\ line = <<>>
    /\ transcription = <<>>
    /\ logprobs = <<>>
    /\ text = <<>>
    /\ finalScore = [type |-> "int", val |-> 0]
    /\ audioCalls = 0
    /\ transcribeCalls = 0
    /\ reqs = <<>>

\* print(x, file=stdout) without flush=True: x stays in the buffer
print_NoFlush(x) ==
    /\ buffer' = Append(buffer, x)
    /\ UNCHANGED out

\* print(x, file=stdout, flush=True): x and all that was buffered reach the parent
print(x) ==
    /\ out' = out \o Append(buffer, x)
    /\ buffer' = <<>>

\* an exception leaves main: traceback on stderr, non-zero exit status
Crash(exc) ==
    /\ pc' = "crashed"
    /\ exit' = "abnormal"
    /\ uncaught' = exc
    /\ err' = Append(err, Traceback)

\* whisperx.load_model(modelName, device=deviceId, device_index=deviceNum,
\* compute_type=compute_type, ...) as recorded in loads
LoadCall(dev, idx, ct, ok) ==
    [device |-> dev, device_index |-> idx, compute_type |-> ct, ok |-> ok]

\* --------------------------------------------------------------- startup
\* lines 24-26
ImportWhisperx ==
    /\ pc = "L24"
    /\ \/ /\ print(library_loaded)
          /\ pc' = "L28"
          /\ UNCHANGED <<exit, uncaught, err>>
       \/ /\ Crash("ImportError")
          /\ UNCHANGED <<out, buffer>>
    /\ UNCHANGED <<argv, stdin, e>>
    /\ UNCHANGED startupVars
    /\ UNCHANGED requestVars

\* lines 28-31
CountGPUs ==
    /\ pc = "L28"
    /\ \E n \in 0..MaxCuda :
          /\ cudaCount' = n
          /\ print(StrInt(n))
    /\ pc' = "L33"
    /\ UNCHANGED <<exit, uncaught, err, argv, stdin, e, deviceId, deviceNum, compute_type, loads, model>>
    /\ UNCHANGED requestVars

\* ResolveDevice without the reset of deviceNum on line 37
ResolveDevice_KeepIndex ==
    /\ pc = "L33"
    /\ deviceId' = IF cudaCount > 0 THEN cuda ELSE cpu
    /\ pc' = "L39"
    /\ UNCHANGED <<exit, uncaught, err, out, buffer, argv, stdin, e, cudaCount, deviceNum,
                   compute_type, loads, model>>
    /\ UNCHANGED requestVars

\* ResolveDevice with the precision upgrade of lines 47-48 also in the CPU branch
ResolveDevice_UpgradeOnCpu ==
    /\ pc = "L33"
    /\ IF cudaCount > 0
       THEN /\ deviceId' = cuda
            /\ UNCHANGED <<deviceNum, compute_type>>
       ELSE /\ deviceId' = cpu
            /\ deviceNum' = 0
            /\ compute_type' = IF compute_type = "float16" THEN "float32" ELSE compute_type
    /\ pc' = "L39"
    /\ UNCHANGED <<exit, uncaught, err, out, buffer, argv, stdin, e, cudaCount, loads, model>>
    /\ UNCHANGED requestVars

\* lines 33-37
ResolveDevice ==
    /\ pc = "L33"
    /\ IF cudaCount > 0
       THEN /\ deviceId' = cuda
            /\ UNCHANGED deviceNum
       ELSE /\ deviceId' = cpu
            /\ deviceNum' = 0
    /\ pc' = "L39"
    /\ UNCHANGED <<exit, uncaught, err, out, buffer, argv, stdin, e, cudaCount, compute_type, loads, model>>
    /\ UNCHANGED requestVars

\* LoadModel with a handler that swallows the exception of a CPU load
LoadModel_Swallow ==
    /\ pc = "L39"
    /\ \E ok \in BOOLEAN :
          /\ loads' = Append(loads, LoadCall(deviceId, deviceNum, compute_type, ok))
          /\ model' = IF ok THEN [loaded |-> TRUE, load |-> Len(loads) + 1] ELSE model
          /\ pc' = IF ~ok /\ deviceId # cpu THEN "L45" ELSE "L53"
    /\ UNCHANGED <<exit, uncaught, err, out, buffer, argv, stdin, e, cudaCount, deviceId,
                   deviceNum, compute_type>>
    /\ UNCHANGED requestVars

\* lines 39-43 and 50-51: the first load attempt; its exception is raised
\* again when the device was the CPU, and handled by the fallback otherwise
LoadModel ==
    /\ pc = "L39"
    /\ \E ok \in BOOLEAN :
          /\ loads' = Append(loads, LoadCall(deviceId, deviceNum, compute_type, ok))
          /\ IF ok
             THEN /\ model' = [loaded |-> TRUE, load |-> Len(loads) + 1]
                  /\ pc' = "L53"
                  /\ UNCHANGED <<exit, uncaught, err>>
             ELSE /\ UNCHANGED model
                  /\ IF deviceId # cpu
                     THEN /\ pc' = "L45"
                          /\ UNCHANGED <<exit, uncaught, err>>
                     ELSE Crash("LoadError")
    /\ UNCHANGED <<out, buffer, argv, stdin, e, cudaCount, deviceId, deviceNum, compute_type>>
    /\ UNCHANGED requestVars

\* Fallback with the notice printed to the saved stdout
Fallback_NoticeOnStdout ==
    /\ pc = "L45"
    /\ print(FallbackNotice)
    /\ deviceId' = cpu
    /\ compute_type' = IF compute_type = "float16" THEN "float32" ELSE compute_type
    /\ pc' = "L49"
    /\ UNCHANGED <<exit, uncaught, err, argv, stdin, e, cudaCount, deviceNum, loads, model>>
    /\ UNCHANGED requestVars

\* Fallback without the precision upgrade of lines 47-48
Fallback_KeepPrecision ==
    /\ pc = "L45"
    /\ err' = Append(err, FallbackNotice)
    /\ deviceId' = cpu
    /\ pc' = "L49"
    /\ UNCHANGED <<exit, uncaught, out, buffer, argv, stdin, e, cudaCount, deviceNum,
                   compute_type, loads, model>>
    /\ UNCHANGED requestVars

\* Fallback with the notice printed to the saved stdout as well as to stderr
Fallback_NoticeOnBoth ==
    /\ pc = "L45"
    /\ err' = Append(err, FallbackNotice)
    /\ print(FallbackNotice)
    /\ deviceId' = cpu
    /\ compute_type' = IF compute_type = "float16" THEN "float32" ELSE compute_type
    /\ pc' = "L49"
    /\ UNCHANGED <<exit, uncaught, argv, stdin, e, cudaCount, deviceNum, loads, model>>
    /\ UNCHANGED requestVars

\* lines 45-48: the load failed on the accelerator
Fallback ==
    /\ pc = "L45"
    /\ err' = Append(err, FallbackNotice)
    /\ deviceId' = cpu
    /\ compute_type' = IF compute_type = "float16" THEN "float32" ELSE compute_type
    /\ pc' = "L49"
    /\ UNCHANGED <<exit, uncaught, out, buffer, argv, stdin, e, cudaCount, deviceNum, loads, model>>
    /\ UNCHANGED requestVars

\* FallbackLoad with one more retry after a failed retry
FallbackLoad_RetryAgain ==
    /\ pc = "L49"
    /\ \E ok \in BOOLEAN :
          /\ loads' = Append(loads, LoadCall(deviceId, deviceNum, compute_type, ok))
          /\ IF ok
             THEN /\ model' = [loaded |-> TRUE, load |-> Len(loads) + 1]
                  /\ pc' = "L53"
                  /\ UNCHANGED <<exit, uncaught, err>>
             ELSE /\ UNCHANGED model
                  /\ IF Len(loads) < 2
                     THEN /\ pc' = "L49"
                          /\ UNCHANGED <<exit, uncaught, err>>
                     ELSE Crash("LoadError")
    /\ UNCHANGED <<out, buffer, argv, stdin, e, cudaCount, deviceId, deviceNum, compute_type>>
    /\ UNCHANGED requestVars

\* line 49: the retry; its exception is raised inside the handler and leaves main
FallbackLoad ==
    /\ pc = "L49"
    /\ \E ok \in BOOLEAN :
          /\ loads' = Append(loads, LoadCall(deviceId, deviceNum, compute_type, ok))
          /\ IF ok
             THEN /\ model' = [loaded |-> TRUE, load |-> Len(loads) + 1]
                  /\ pc' = "L53"
                  /\ UNCHANGED <<exit, uncaught, err>>
             ELSE /\ UNCHANGED model
                  /\ Crash("LoadError")
    /\ UNCHANGED <<out, buffer, argv, stdin, e, cudaCount, deviceId, deviceNum, compute_type>>
    /\ UNCHANGED requestVars

\* line 53
PrintModelLoaded ==
    /\ pc = "L53"
    /\ print(model_loaded)
    /\ pc' = "L54"
    /\ UNCHANGED <<exit, uncaught, err, argv, stdin, e>>
    /\ UNCHANGED startupVars
    /\ UNCHANGED requestVars

\* line 54
PrintDeviceId ==
    /\ pc = "L54"
    /\ print(deviceId)
    /\ pc' = "L58"
    /\ UNCHANGED <<exit, uncaught, err, argv, stdin, e>>
    /\ UNCHANGED startupVars
    /\ UNCHANGED requestVars

\* ---------------------------------------------------------- request loop
\* the entry reqs keeps for a line just read
Request(l) ==
    [line |-> l, outStart |-> Len(out), audio |-> audioCalls,
     transcribe |-> transcribeCalls, result |-> "pending", segs |-> <<>>]

\* reqs with the outcome of the request in progress filled in
Settled(result, segs) ==
    [reqs EXCEPT ![Len(reqs)] = [@ EXCEPT !.result = result, !.segs = segs]]

\* line 58: input() returns the next line
ReadLine ==
    /\ pc = "L58"
    /\ pos < Len(stdin)
    /\ line' = stdin[pos + 1]
    /\ pos' = pos + 1
    /\ reqs' = Append(reqs, Request(stdin[pos + 1]))
    /\ pc' = "L60"
    /\ UNCHANGED <<exit, uncaught, err, out, buffer, argv, stdin, e, transcription, logprobs, text,
                   finalScore, audioCalls, transcribeCalls>>
    /\ UNCHANGED startupVars

\* ReadEOF with the end of input handled like the terminate token
ReadEOF_AsTerminate ==
    /\ pc = "L58"
    /\ pos = Len(stdin)
    /\ pc' = "terminated"
    /\ exit' = "normal"
    /\ UNCHANGED <<uncaught, err, out, buffer, argv, stdin, e>>
    /\ UNCHANGED startupVars
    /\ UNCHANGED requestVars

\* line 58: stdin is closed; input() raises EOFError, which nothing catches
ReadEOF ==
    /\ pc = "L58"
    /\ pos = Len(stdin)
    /\ Crash("EOFError")
    /\ UNCHANGED <<out, buffer, argv, stdin, e>>
    /\ UNCHANGED startupVars
    /\ UNCHANGED requestVars

\* Terminate with continue in place of break
Terminate_Continue ==
    /\ pc = "L60"
    /\ line = terminate
    /\ pc' = "L58"
    /\ UNCHANGED <<exit, uncaught, err, out, buffer, argv, stdin, e>>
    /\ UNCHANGED startupVars
    /\ UNCHANGED requestVars

\* lines 60-61 and 92: break, return
Terminate ==
    /\ pc = "L60"
    /\ line = terminate
    /\ pc' = "terminated"
    /\ exit' = "normal"
    /\ UNCHANGED <<uncaught, err, out, buffer, argv, stdin, e>>
    /\ UNCHANGED startupVars
    /\ UNCHANGED requestVars

\* Ping without the continue of line 64: the line goes on to load_audio,
\* which fails on it
Ping_NoContinue ==
    /\ pc = "L60"
    /\ line # terminate
    /\ line = ping
    /\ print(ping)
    /\ audioCalls' = audioCalls + 1
    /\ transcription' = <<>>
    /\ logprobs' = <<>>
    /\ e' = AudioError
    /\ pc' = "L77"
    /\ UNCHANGED <<exit, uncaught, err, argv, stdin, line, pos, text, finalScore,
                   transcribeCalls, reqs>>
    /\ UNCHANGED startupVars

\* lines 62-64
Ping ==
    /\ pc = "L60"
    /\ line # terminate
    /\ line = ping
    /\ print(ping)
    /\ pc' = "L58"
    /\ UNCHANGED <<exit, uncaught, err, argv, stdin, e>>
    /\ UNCHANGED startupVars
    /\ UNCHANGED requestVars

\* lines 66-74: the try block
Transcribe ==
    /\ pc = "L60"
    /\ line # terminate
    /\ line # ping
    /\ \/ \* whisperx.load_audio(line) raises
          /\ audioCalls' = audioCalls + 1
          /\ UNCHANGED transcribeCalls
          /\ transcription' = <<>>
          /\ logprobs' = <<>>
          /\ e' = AudioError
          /\ reqs' = Settled("error", <<>>)
          /\ pc' = "L77"
       \/ \* model.transcribe(audio, ...) raises
          /\ audioCalls' = audioCalls + 1
          /\ transcribeCalls' = transcribeCalls + 1
          /\ transcription' = <<>>
          /\ logprobs' = <<>>
          /\ e' = ModelError
          /\ reqs' = Settled("error", <<>>)
          /\ pc' = "L77"
       \/ \* model.transcribe returns; the loop aggregates the segments
          \E segs \in Results :
             LET r == ForSegments(segs, <<>>, <<>>)
             IN  /\ audioCalls' = audioCalls + 1
                 /\ transcribeCalls' = transcribeCalls + 1
                 /\ transcription' = r.transcription
                 /\ logprobs' = r.logprobs
                 /\ e' = r.e
                 /\ reqs' = Settled(IF r.e = NoExc THEN "ok" ELSE "error", segs)
                 /\ pc' = IF r.e = NoExc THEN "L81" ELSE "L77"
    /\ UNCHANGED <<exit, uncaught, err, out, buffer, argv, stdin, line, pos, text, finalScore>>
    /\ UNCHANGED startupVars

\* HandleError without the continue of line 79
HandleError_NoContinue ==
    /\ pc = "L77"
    /\ print(Sanitize(e))
    /\ e' = NoExc
    /\ pc' = "L81"
    /\ UNCHANGED <<exit, uncaught, err, argv, stdin>>
    /\ UNCHANGED startupVars
    /\ UNCHANGED requestVars

\* HandleError with repr(e) printed as it is
HandleError_Raw ==
    /\ pc = "L77"
    /\ print(e)
    /\ e' = NoExc
    /\ pc' = "L58"
    /\ UNCHANGED <<exit, uncaught, err, argv, stdin>>
    /\ UNCHANGED startupVars
    /\ UNCHANGED requestVars

\* HandleError that drops the model after a failed request
HandleError_Unload ==
    /\ pc = "L77"
    /\ print(Sanitize(e))
    /\ e' = NoExc
    /\ model' = NoModel
    /\ pc' = "L58"
    /\ UNCHANGED <<exit, uncaught, err, argv, stdin>>
    /\ UNCHANGED <<cudaCount, deviceId, deviceNum, compute_type, loads>>
    /\ UNCHANGED requestVars

\* HandleError that also prints what was transcribed before the failure
HandleError_PrintsPartial ==
    /\ pc = "L77"
    /\ out' = out \o buffer \o <<Sanitize(e), Sanitize(transcription)>>
    /\ buffer' = <<>>
    /\ e' = NoExc
    /\ pc' = "L58"
    /\ UNCHANGED <<exit, uncaught, err, argv, stdin>>
    /\ UNCHANGED startupVars
    /\ UNCHANGED requestVars

\* lines 76-79: the except block
HandleError ==
    /\ pc = "L77"
    /\ LET msg == Sanitize(e)
       IN  print(msg)
    /\ e' = NoExc
    /\ pc' = "L58"
    /\ UNCHANGED <<exit, uncaught, err, argv, stdin>>
    /\ UNCHANGED startupVars
    /\ UNCHANGED requestVars

\* lines 81-86
ComputeResult ==
    /\ pc = "L81"
    /\ text' = Sanitize(transcription)
    /\ finalScore' = FinalScore(logprobs)
    /\ pc' = "L88"
    /\ UNCHANGED <<exit, uncaught, err, out, buffer, argv, stdin, e, line, transcription, logprobs,
                   audioCalls, transcribeCalls, reqs, pos>>
    /\ UNCHANGED startupVars

\* line 88
PrintFinished ==
    /\ pc = "L88"
    /\ print(finished)
    /\ pc' = "L89"
    /\ UNCHANGED <<exit, uncaught, err, argv, stdin, e>>
    /\ UNCHANGED startupVars
    /\ UNCHANGED requestVars

\* line 89
PrintScore ==
    /\ pc = "L89"
    /\ print(StrScore(finalScore))
    /\ pc' = "L90"
    /\ UNCHANGED <<exit, uncaught, err, argv, stdin, e>>
    /\ UNCHANGED startupVars
    /\ UNCHANGED requestVars

\* line 90
PrintText ==
    /\ pc = "L90"
    /\ print(text)
    /\ pc' = "L58"
    /\ UNCHANGED <<exit, uncaught, err, argv, stdin, e>>
    /\ UNCHANGED startupVars
    /\ UNCHANGED requestVars

Next ==
    \/ ImportWhisperx
    \/ CountGPUs
    \/ ResolveDevice
    \/ LoadModel
    \/ Fallback
    \/ FallbackLoad
    \/ PrintModelLoaded
    \/ PrintDeviceId
    \/ ReadLine
    \/ ReadEOF
    \/ Terminate
    \/ Ping
    \/ Transcribe
    \/ HandleError
    \/ ComputeResult
    \/ PrintFinished
    \/ PrintScore
    \/ PrintText

Spec == Init /\ [][Next]_vars

\* ------------------------------------------------------- derived notions
\* the states of the dispatcher
Starting   == pc \in {"L24", "L28", "L33", "L39", "L45", "L49", "L53", "L54"}
Ready      == pc = "L58"
Terminated == pc = "terminated"
Crashed    == pc = "crashed"
Handling   == pc \in {"L60", "L77", "L81", "L88", "L89", "L90"}
InLoop     == Ready \/ Handling \/ Terminated \/ (Crashed /\ uncaught = "EOFError")

TypeOK ==
    /\ exit \in {"running", "normal", "abnormal"}
    /\ pos \in 0..Len(stdin)
    /\ Len(reqs) = pos
    /\ Len(loads) <= 2

\* ------------------------------------------------ reading the protocol
\* the lines a reader of the channel sees in one print(payload): the payload
\* is followed by a line feed, and every line feed in it ends a line too
RECURSIVE Split(_, _)
Split(s, cur) ==
    IF s = <<>> THEN <<cur>>
    ELSE IF Head(s) = "\n" THEN <<cur>> \o Split(Tail(s), <<>>)
    ELSE Split(Tail(s), Append(cur, Head(s)))

RECURSIVE Lines(_)
Lines(payloads) ==
    IF payloads = <<>> THEN <<>> ELSE Split(Head(payloads), <<>>) \o Lines(Tail(payloads))

\* what was printed for the i-th line read, up to the next read
ResponseEnd(i) == IF i < Len(reqs) THEN reqs[i + 1].outStart ELSE Len(out)
Response(i)    == SubSeq(out, reqs[i].outStart + 1, ResponseEnd(i))

\* the i-th request has been handled: the loop came back to input()
Completed(i) == i < Len(reqs) \/ Ready \/ uncaught = "EOFError"

\* calls of load_audio and model.transcribe made for the i-th request
CallsFor(i) ==
    IF i < Len(reqs)
    THEN (reqs[i + 1].audio - reqs[i].audio) + (reqs[i + 1].transcribe - reqs[i].transcribe)
    ELSE (audioCalls - reqs[i].audio) + (transcribeCalls - reqs[i].transcribe)

Digits == {"0", "1", "2", "3", "4", "5", "6", "7", "8", "9"}

DigitValue(c) == CHOOSE d \in 0..9 : Digit(d) = c

RECURSIVE DecimalValue(_)
DecimalValue(s) ==
    IF s = <<>> THEN 0 ELSE 10 * DecimalValue(SubSeq(s, 1, Len(s) - 1)) + DigitValue(s[Len(s)])

\* s is the decimal numeral of n
IsDecimalOf(s, n) ==
    /\ s # <<>>
    /\ \A k \in 1..Len(s) : s[k] \in Digits
    /\ DecimalValue(s) = n

\* s is a number as str() writes one: digits, with at most one point inside
IsNumber(s) ==
    /\ s # <<>>
    /\ \A k \in 1..Len(s) : s[k] \in Digits \cup {"."}
    /\ Cardinality({k \in 1..Len(s) : s[k] = "."}) <= 1
    /\ s[1] # "." /\ s[Len(s)] # "."

NoBreaks(s) == \A k \in 1..Len(s) : s[k] \notin {"\n", "\r"}

\* s is d with its line breaks turned into something else
SameUpToBreaks(s, d) ==
    /\ Len(s) = Len(d)
    /\ \A k \in 1..Len(d) : d[k] \notin {"\n", "\r"} => s[k] = d[k]

ErrorDescriptions == {AudioError, ModelError, KeyErrorText}

\* no segment of segs carries a log-probability
NoLogprob(segs) == \A k \in 1..Len(segs) : "avg_logprob" \notin DOMAIN segs[k]

\* ----------------------------------------------------------------- claims

\* C1: once the request loop is reached, the protocol channel starts with
\* exactly four frames - library_loaded, the accelerator count in decimal,
\* model_loaded, the effective device kind (cuda or cpu) - and holds nothing
\* else when the first request is read, on the direct and the fallback path.
C1_StartupFrames ==
    InLoop =>
        /\ Len(out) >= 4
        /\ out[1] = library_loaded
        /\ IsDecimalOf(out[2], cudaCount)
        /\ out[3] = model_loaded
        /\ out[4] \in {cuda, cpu}
        /\ out[4] = loads[Len(loads)].device
        /\ Len(Lines(SubSeq(out, 1, 4))) = 4
        /\ IF reqs = <<>> THEN Len(out) = 4 ELSE reqs[1].outStart = 4

C1_Witness ==
    /\ Ready
    /\ pos = 0
    /\ Len(loads) = 2
    /\ out = <<library_loaded, <<"1">>, model_loaded, cpu>>

\* C2: when accelerators were found and the first load failed, the line after
\* model_loaded is cpu, and a requested float16 is loaded on the CPU as float32.
C2_FallbackReportsCpu ==
    (cudaCount > 0 /\ Len(loads) >= 1 /\ ~loads[1].ok) =>
        /\ Len(loads) >= 2 =>
              /\ loads[2].device = cpu
              /\ argv.compute_type = "float16" => loads[2].compute_type = "float32"
        /\ \A k \in 1..Len(out) :
              out[k] = model_loaded => /\ Len(loads) = 2
                                       /\ k < Len(out) => out[k + 1] = cpu

C2_Witness ==
    /\ cudaCount > 0
    /\ argv.compute_type = "float16"
    /\ Len(loads) = 2 /\ ~loads[1].ok /\ loads[2].ok
    /\ Len(out) >= 4 /\ out[3] = model_loaded /\ out[4] = cpu

\* C3: the fallback retry loads with device kind CPU and device index 0,
\* whatever device index was configured at startup.
C3_FallbackIndexZero ==
    Len(loads) >= 2 => /\ loads[2].device = cpu
                       /\ loads[2].device_index = 0

\* C4: when no accelerator is found, the model load is attempted on the CPU
\* with device index 0, regardless of the device index requested at startup.
C4_NoAcceleratorIndexZero ==
    (cudaCount = 0 /\ Len(loads) >= 1) =>
        /\ Len(loads) = 1
        /\ loads[1].device = cpu
        /\ loads[1].device_index = 0

C4_Witness ==
    /\ cudaCount = 0
    /\ argv.deviceNum > 0
    /\ Len(loads) = 1

\* C5: a failed load attempt on the CPU (the first one without accelerators,
\* or the fallback one) ends the process abnormally: model_loaded is never
\* emitted, no input line is read and no further load is attempted.
C5_CpuLoadFailureFatal ==
    \A k \in 1..Len(loads) :
        (loads[k].device = cpu /\ ~loads[k].ok) =>
            /\ k = Len(loads)
            /\ Crashed /\ exit = "abnormal" /\ uncaught = "LoadError"
            /\ ~model.loaded
            /\ \A j \in 1..Len(out) : out[j] # model_loaded
            /\ pos = 0 /\ reqs = <<>>

C5_Witness ==
    /\ Len(loads) = 2
    /\ loads[2].device = cpu /\ ~loads[2].ok
    /\ Crashed

\* C6: a ping line, after any earlier requests, is answered by exactly the one
\* protocol line ping, calls neither load_audio nor the model, and leaves the
\* worker in Ready.
C6_PingAnswered ==
    \A i \in 1..Len(reqs) :
        reqs[i].line = ping =>
            /\ CallsFor(i) = 0
            /\ IF Completed(i)
               THEN Response(i) = <<ping>> /\ Lines(Response(i)) = <<ping>>
               ELSE pc = "L60" /\ Response(i) = <<>>
            /\ (i = Len(reqs) /\ pc # "L60") =>
                  /\ model.loaded
                  /\ Ready \/ (Crashed /\ uncaught = "EOFError" /\ pos = Len(stdin))

C6_Witness ==
    /\ Len(reqs) = 2
    /\ reqs[1].result = "error"
    /\ reqs[2].line = ping
    /\ Ready

\* C7: the terminate line produces no protocol output and ends the worker
\* with a normal exit; no line after it is read and nothing more is emitted.
C7_TerminateEndsSession ==
    /\ \A i \in 1..Len(reqs) :
          reqs[i].line = terminate =>
              /\ i = Len(reqs)
              /\ Response(i) = <<>>
              /\ CallsFor(i) = 0
              /\ pc = "L60" \/ (Terminated /\ exit = "normal" /\ uncaught = "None")
    /\ Terminated => (reqs # <<>> /\ reqs[Len(reqs)].line = terminate)

C7_Witness ==
    /\ Terminated
    /\ pos < Len(stdin)

C9_FailureIsOneLine ==
    \A i \in 1..Len(reqs) :
        reqs[i].result = "error" =>
            IF Completed(i)
            THEN /\ Len(Response(i)) = 1
                 /\ Len(Lines(Response(i))) = 1
                 /\ \E d \in ErrorDescriptions : SameUpToBreaks(Response(i)[1], d)
                 /\ i = Len(reqs) => /\ model.loaded
                                     /\ Ready \/ uncaught = "EOFError"
            ELSE /\ pc = "L77"
                 /\ Response(i) = <<>>
                 /\ exit = "running"

C9_Witness ==
    /\ Len(reqs) = 2
    /\ reqs[1].result = "error"
    /\ reqs[2].result = "error"
    /\ Ready
    /\ Len(out) = 6

\* C10: a transcription that completes without error is answered by exactly
\* three protocol lines in order - transcription_finished, the score, the
\* sanitized text - and the score line is exactly 0 when no segment carried a
\* log-probability, zero segments included.
C10_SuccessIsThreeLines ==
    \A i \in 1..Len(reqs) :
        (reqs[i].result = "ok" /\ Completed(i)) =>
            /\ Len(Response(i)) = 3
            /\ Len(Lines(Response(i))) = 3
            /\ Response(i)[1] = finished
            /\ IsNumber(Response(i)[2])
            /\ NoBreaks(Response(i)[3])
            /\ NoLogprob(reqs[i].segs) => Response(i)[2] = <<"0">>

C10_Witness ==
    \E i \in 1..Len(reqs) :
        /\ reqs[i].result = "ok"
        /\ Completed(i)
        /\ reqs[i].segs = <<>>
        /\ Response(i) = <<finished, <<"0">>, <<>>>>

\* C11: no payload line on the protocol channel holds a newline or a carriage
\* return, whatever the segment texts and the error descriptions are.
C11_NoLineBreakInPayload ==
    /\ \A k \in 1..Len(out) : NoBreaks(out[k])
    /\ \A k \in 1..Len(buffer) : NoBreaks(buffer[k])

C11_Witness ==
    /\ \E k \in 1..Len(out) : out[k] = <<"E", " ", "1">>
    /\ \E k \in 1..Len(out) : out[k] = <<"a", " ", " ", "b">>

\* the log-probabilities the segments of segs carry, in order
RECURSIVE Carried(_)
Carried(segs) ==
    IF segs = <<>> THEN <<>>
    ELSE (IF "avg_logprob" \in DOMAIN Head(segs) THEN <<Head(segs).avg_logprob>> ELSE <<>>)
         \o Carried(Tail(segs))

RECURSIVE Pow10(_)
Pow10(n) == IF n = 0 THEN 1 ELSE 10 * Pow10(n - 1)

\* the number a score line denotes, in units of 1/Scale
ScoreValue(s) ==
    IF \A k \in 1..Len(s) : s[k] # "." THEN DecimalValue(s) * Scale
    ELSE LET p    == CHOOSE k \in 1..Len(s) : s[k] = "."
             frac == SubSeq(s, p + 1, Len(s))
         IN  DecimalValue(SubSeq(s, 1, p - 1)) * Scale
               + (DecimalValue(frac) * Scale) \div Pow10(Len(frac))

\* v is the mean of the exponentials of lps, to the resolution of Scale
IsMeanOfExp(v, lps) ==
    LET total == SumExp(lps)
    IN  v * Len(lps) <= total /\ total < (v + 1) * Len(lps)

\* the score line of the i-th request is the mean of the exponentials of the
\* log-probabilities its segments carry
ScoreIsMean(i) ==
    (reqs[i].result = "ok" /\ Completed(i) /\ ~NoLogprob(reqs[i].segs)) =>
        IsMeanOfExp(ScoreValue(Response(i)[2]), Carried(reqs[i].segs))

\* the score line of the i-th request is within tol/Scale of approx/Scale when
\* its log-probabilities are -0.1 and -0.3
ExampleScore(i, approx, tol) ==
    (reqs[i].result = "ok" /\ Completed(i) /\ Carried(reqs[i].segs) = <<-1, -3>>) =>
        /\ ScoreValue(Response(i)[2]) >= approx - tol
        /\ ScoreValue(Response(i)[2]) <= approx + tol

\* C12 as stated: the score is the mean of the exponentials of the collected
\* log-probabilities, over the segments that carry one, and for [-0.1, -0.3]
\* it is approximately 0.8262.
C12_ScoreExample8262 ==
    \A i \in 1..Len(reqs) : ScoreIsMean(i) /\ ExampleScore(i, 8262, 5)

\* C12, amended: the score is the mean of the exponentials of the collected
\* log-probabilities, over the segments that carry one, and for [-0.1, -0.3]
\* it is approximately 0.8228.
C12_ScoreIsMeanOfExp ==
    \A i \in 1..Len(reqs) : ScoreIsMean(i) /\ ExampleScore(i, 8228, 1)

C12_Witness ==
    \E i \in 1..Len(reqs) :
        /\ reqs[i].result = "ok" /\ Completed(i)
        /\ reqs[i].segs = <<SegA, SegB>>
        /\ Response(i)[2] = <<"0", ".", "8", "2", "2", "8">>

\* C13: the model load is attempted at most twice; a second attempt is made
\* exactly when the first failed on the accelerator, never a third, and a
\* successful first attempt is the only one.
C13_AtMostOneRetry ==
    /\ Len(loads) <= 2
    /\ Len(loads) >= 1 /\ loads[1].ok => Len(loads) = 1
    /\ Len(loads) = 2 => ~loads[1].ok /\ loads[1].device = cuda
    /\ (Len(loads) = 1 /\ ~loads[1].ok /\ loads[1].device = cuda) => pc \in {"L45", "L49"}
    /\ (Len(loads) = 1 /\ ~loads[1].ok /\ loads[1].device = cpu) => Crashed

C13_Witness ==
    /\ Len(loads) = 2
    /\ ~loads[1].ok /\ loads[1].device = cuda
    /\ Len(reqs) = 2
    /\ Ready

\* the lines the i-th request is answered with, by its kind and outcome
FrameComplete(i) ==
    LET r == Response(i)
    IN  CASE reqs[i].line = terminate -> r = <<>>
          [] reqs[i].line = ping -> r = <<ping>>
          [] reqs[i].result = "error" ->
                 Len(r) = 1 /\ \E d \in ErrorDescriptions : SameUpToBreaks(r[1], d)
          [] reqs[i].result = "ok" ->
                 Len(r) = 3 /\ r[1] = finished /\ IsNumber(r[2]) /\ NoBreaks(r[3])
          [] OTHER -> FALSE

\* C14: requests are handled one at a time: when a line is read, every line of
\* the responses to the lines before it has been emitted and flushed, so the
\* responses are in request order and never interleaved.
C14_OneAtATime ==
    /\ (Ready \/ pc = "L60") => buffer = <<>>
    /\ \A i \in 1..Len(reqs) :
          /\ reqs[i].line = stdin[i]
          /\ i < Len(reqs) => /\ reqs[i].outStart <= reqs[i + 1].outStart
                              /\ FrameComplete(i)
    /\ Handling => Len(reqs) = pos /\ pos >= 1

C14_Witness ==
    /\ Len(reqs) = 2
    /\ reqs[1].result = "ok"
    /\ pc = "L60"
    /\ Len(out) = 7

\* C15: the first input line is read only after a load has succeeded and
\* model_loaded was emitted; throughout request processing the model handle
\* exists and is the one loaded at startup - no request, failed ones
\* included, reloads, replaces or unloads it.
C15_ModelHeldThroughout ==
    (InLoop \/ pos > 0) =>
        /\ model.loaded
        /\ model.load = Len(loads)
        /\ loads[model.load].ok
        /\ \A k \in 1..(Len(loads) - 1) : ~loads[k].ok
        /\ Len(out) >= 3 /\ out[3] = model_loaded
        /\ reqs # <<>> => reqs[1].outStart > 3

C15_Witness ==
    /\ Len(reqs) = 2
    /\ reqs[1].result = "error"
    /\ reqs[2].result = "ok"
    /\ Ready
    /\ model.loaded

\* the startup frames for an accelerator count and an effective device kind
StartupFrames(count, kind) == <<library_loaded, StrInt(count), model_loaded, kind>>

\* C16: the fallback writes its notice to the diagnostic channel only and
\* adds no frame to the protocol channel: the startup frames are those of a
\* CPU startup with that accelerator count, and those of a successful
\* accelerator startup but for the device-kind line.
C16_FallbackSilentOnProtocol ==
    /\ \A k \in 1..Len(out) : out[k] # FallbackNotice
    /\ pc \in {"L45", "L49"} => out = <<library_loaded, StrInt(cudaCount)>>
    /\ pc = "L49" => err = <<FallbackNotice>>
    /\ InLoop =>
          /\ SubSeq(out, 1, 4) =
                StartupFrames(cudaCount, IF cudaCount > 0 /\ loads[1].ok THEN cuda ELSE cpu)
          /\ Len(loads) = 2 <=> (\E k \in 1..Len(err) : err[k] = FallbackNotice)
          /\ IF reqs = <<>> THEN Len(out) = 4 ELSE reqs[1].outStart = 4

C16_Witness ==
    /\ Len(loads) = 2
    /\ err = <<FallbackNotice>>
    /\ out = StartupFrames(1, cpu)
    /\ pc = "L60"

\* the texts of segs, one after the other
RECURSIVE Concat(_)
Concat(segs) == IF segs = <<>> THEN <<>> ELSE Head(segs).text \o Concat(Tail(segs))

RECURSIVE TextLength(_)
TextLength(segs) == IF segs = <<>> THEN 0 ELSE Len(Head(segs).text) + TextLength(Tail(segs))

\* C17: the text line of a successful transcription is the concatenation of
\* the segment texts in order, without separator, with every newline and
\* every carriage return turned into one space and every other character
\* kept; its length is the sum of the lengths of the segment texts.
C17_TextIsSanitizedConcat ==
    \A i \in 1..Len(reqs) :
        (reqs[i].result = "ok" /\ Completed(i)) =>
            LET c == Concat(reqs[i].segs)
                t == Response(i)[3]
            IN  /\ Len(t) = TextLength(reqs[i].segs)
                /\ Len(t) = Len(c)
                /\ \A k \in 1..Len(c) :
                      t[k] = IF c[k] \in {"\n", "\r"} THEN " " ELSE c[k]

C17_Witness ==
    \E i \in 1..Len(reqs) :
        /\ reqs[i].result = "ok" /\ Completed(i)
        /\ reqs[i].segs = <<SegA, SegB>>
        /\ Response(i)[3] = <<"a", " ", " ", "b">>

\* what has been printed for the request in progress is the start of its frame
FrameStarted(i) ==
    LET r == Response(i)
    IN  CASE pc = "L60" -> r = <<>>
          [] pc = "L77" -> r = <<>> /\ reqs[i].result = "error"
          [] pc \in {"L81", "L88"} -> r = <<>> /\ reqs[i].result = "ok"
          [] pc = "L89" -> r = <<finished>> /\ reqs[i].result = "ok"
          [] pc = "L90" -> Len(r) = 2 /\ r[1] = finished /\ reqs[i].result = "ok"
          [] OTHER -> FALSE

\* C18: after the startup frames the protocol output is one response frame
\* per line read other than terminate - [ping], [one error line] or
\* [transcription_finished, score, text]; a request that fails after some
\* segments were aggregated emits the error line only, never the marker, a
\* score or partial text.
C18_OneFramePerLine ==
    /\ reqs = <<>> => Len(out) <= 4
    /\ reqs # <<>> => reqs[1].outStart = 4
    /\ \A i \in 1..Len(reqs) :
          /\ IF Completed(i) \/ Terminated THEN FrameComplete(i) ELSE FrameStarted(i)
          /\ reqs[i].result = "error" =>
                \A k \in 1..Len(Response(i)) :
                    /\ Response(i)[k] # finished
                    /\ k = 1
                    /\ reqs[i].segs # <<>> => Response(i)[k] = KeyErrorText

C18_Witness ==
    \E i \in 1..Len(reqs) :
        /\ reqs[i].segs = <<SegA, SegNoText, SegB>>
        /\ reqs[i].result = "error"
        /\ Completed(i)
        /\ Response(i) = <<KeyErrorText>>

\* C19: the precision passed to the loader is the requested one on the first
\* attempt, a first attempt on the CPU with float16 included; it changes only
\* on the fallback path and only from float16 to float32.
C19_PrecisionKept ==
    /\ Len(loads) >= 1 => loads[1].compute_type = argv.compute_type
    /\ Len(loads) >= 2 =>
          loads[2].compute_type =
              IF argv.compute_type = "float16" THEN "float32" ELSE argv.compute_type
    /\ compute_type # argv.compute_type =>
          /\ argv.compute_type = "float16" /\ compute_type = "float32"
          /\ Len(loads) >= 1 /\ ~loads[1].ok /\ loads[1].device = cuda

C19_Witness ==
    /\ cudaCount = 0
    /\ argv.compute_type = "float16"
    /\ Len(loads) = 1
    /\ loads[1].device = cpu /\ loads[1].compute_type = "float16"

====
